---- MODULE Spec2Model ----
(***************************************************************************)
(* A model of apriltags2_ros TagDetector (common_functions.cpp): loading   *)
(* the tag registry in the constructor, and the per-frame pipeline         *)
(* detectTags = detect -> removeDuplicates -> correlate -> estimate ->     *)
(* publish, together with the detection buffer detections_ it reuses.      *)
(*                                                                         *)
(* Modelling decisions                                                     *)
(*  - A detection is [uid, id]: id is apriltag_detection_t::id, uid is its *)
(*    position in the decoder's output and stands for the rest of the      *)
(*    struct (corners, homography H).                                      *)
(*  - Tag sizes are even integers of a model unit, so size/2 is exact.     *)
(*  - cv::solvePnP and homography_project are external: a pose is the pair *)
(*    of point sequences handed to the solver, an image point is           *)
(*    <<uid, tag_x, tag_y>>.                                               *)
(*  - ROS_ASSERT either aborts the process (assertions compiled in) or is  *)
(*    empty (NDEBUG); the variable asserts is the build.  The XmlRpcValue  *)
(*    conversions throw XmlRpcException on a type mismatch.                *)
(*  - zarray_sort is qsort over the array's elements, which are            *)
(*    apriltag_detection_t* (zarray_get(detections_, i, &detection)), so   *)
(*    the comparator's arguments point to pointers.                        *)
(***************************************************************************)
EXTENDS Integers, Sequences, FiniteSets, TLC

VARIABLES
  param,                         \* the ROS parameters read by the constructor
  asserts,                       \* TRUE iff ROS_ASSERT is compiled in
  life,                          \* "ctor_standalone", "ctor_bundles", "alive", "aborted", "destroyed"
  ctorLog,                       \* messages logged by the constructor
  standalone_tag_descriptions_,  \* std::map<int, StandaloneTagDescription>
  tag_bundle_descriptions_,      \* std::vector<TagBundleDescription>
  publish_tf_,                   \* bool
  detections_,                   \* zarray_t*: Null, Garbage or an array id
  zdata,                         \* the elements of the array detections_ points to
  zfrees,                        \* zfrees[a]: how often array a was freed
  wildFree,                      \* a pointer that is no array was handed to zarray_destroy
  call,                          \* per calling thread: position and locals of detectTags
  callsLeft,                     \* detectTags calls the environment will still make
  callers,                       \* the threads that call detectTags on this instance
  probe                          \* observer of two successive removeDuplicates passes

vars == <<param, asserts, life, ctorLog, standalone_tag_descriptions_,
          tag_bundle_descriptions_, publish_tf_, detections_, zdata, zfrees,
          wildFree, call, callsLeft, callers, probe>>

----------------------------------------------------------------------------
\* Bounds of the model

\* tag ids are 0..MaxId (the decoder's ids index the family's code table)
MaxId == 1

\* longest list of raw detections handed to removeDuplicates on its own
MaxDet == 3

\* longest list of raw detections of one frame in detectTags
MaxFrame == 3

\* longest standalone_tags list, tag_bundles list and bundle layout
MaxStandalone == 2

MaxBundles == 2

MaxMembers == 2

\* detectTags calls per detector instance
MaxCalls == 3

IDs == 0 .. MaxId

Sizes == {2, 4}

\* detections_ values that point to no array: NULL, and whatever an
\* uninitialized pointer holds
Null == 0

Garbage == -1

SeqsUpTo(S, n) == UNION {[1..k -> S] : k \in 0..n}

Range(s) == {s[k] : k \in 1..Len(s)}

----------------------------------------------------------------------------
\* Values of the configuration and of the registry

\* A frame or bundle name: the string prefix followed by the decimal n
\* (n = -1: the prefix alone).
Name(prefix, n) == [prefix |-> prefix, n |-> n]

\* frame_name_stream << "tag_" << id
TagName(id) == Name("tag_", id)

\* bundle_name_stream << "bundle_" << i   (i counts from 0)
BundleName(i) == Name("bundle_", i)

EmptyMap == [k \in {} |-> 0]

\* cv::Matx44d::eye()
Eye == << <<1, 0, 0, 0>>, <<0, 1, 0, 0>>, <<0, 0, 1, 0>>, <<0, 0, 0, 1>> >>

\* Eigen: Quaterniond(qw,qx,qy,qz).normalize().toRotationMatrix() for the
\* two quaternions of the model: "id" = (1,0,0,0), "z90" = (1,0,0,1), a
\* quarter turn about Z once normalized.
toRotationMatrix(q) ==
  IF q = "z90"
  THEN << <<0, -1, 0>>, <<1, 0, 0>>, <<0, 0, 1>> >>
  ELSE << <<1, 0, 0>>, <<0, 1, 0>>, <<0, 0, 1>> >>

\* cv::Matx44d T_mj(R_oi, x, y, z; 0 0 0 1)
MemberTransform(pose) ==
  LET R_oi == toRotationMatrix(pose.q)
  IN << <<R_oi[1][1], R_oi[1][2], R_oi[1][3], pose.x>>,
        <<R_oi[2][1], R_oi[2][2], R_oi[2][3], pose.y>>,
        <<R_oi[3][1], R_oi[3][2], R_oi[3][3], pose.z>>,
        <<0, 0, 0, 1>> >>

\* std::map::insert: an existing key keeps its value
MapInsert(m, k, v) == IF k \in DOMAIN m THEN m ELSE [x \in DOMAIN m \cup {k} |-> IF x = k THEN v ELSE m[x]]

\* findStandaloneTagDescription's lookup: is there a description of id
HasStandalone(descriptions, id) == id \in DOMAIN descriptions

\* TagBundleDescription(name): no member tags yet
NewBundle(name) == [name |-> name, tags |-> <<>>, id2idx_ |-> EmptyMap]

\* TagBundleDescription::addMemberTag: append the member and index it by id
addMemberTag(bundle, id, size, T_oi) ==
  LET tags == Append(bundle.tags, [id |-> id, size |-> size, T_oi |-> T_oi])
  IN [bundle EXCEPT !.tags = tags,
                    !.id2idx_ = [x \in DOMAIN bundle.id2idx_ \cup {id} |->
                                   IF x = id THEN Len(tags) ELSE bundle.id2idx_[x]]]

\* TagBundleDescription::memberSize, memberT_oi, bundleIds, bundleSizes
memberSize(bundle, id) == bundle.tags[bundle.id2idx_[id]].size

memberT_oi(bundle, id) == bundle.tags[bundle.id2idx_[id]].T_oi

bundleIds(bundle) == [k \in 1..Len(bundle.tags) |-> bundle.tags[k].id]

bundleSizes(bundle) == [k \in 1..Len(bundle.tags) |-> bundle.tags[k].size]

----------------------------------------------------------------------------
\* Loading the registry (constructor, parseStandaloneTags, parseTagBundles)

\* The outcome of a parse: "ok" with the descriptions, "throw" (an
\* XmlRpcException leaves the function), "abort" (a ROS_ASSERT fails with
\* assertions compiled in: ROS_FATAL and the process breaks).
Parsed(status, value) == [status |-> status, value |-> value]

\* What a field of the wrong XmlRpc type does: the ROS_ASSERT on its type
\* aborts if compiled in, otherwise the conversion operator throws.
TypeError(as) == IF as THEN "abort" ELSE "throw"

\* The body of parseStandaloneTags' loop from index i on
RECURSIVE parseStandaloneFrom(_, _, _, _)
parseStandaloneFrom(standalone_tags, i, descriptions, as) ==
  IF i > Len(standalone_tags)
  THEN Parsed("ok", descriptions)
  ELSE LET tag_description == standalone_tags[i]
           id == tag_description.id
           size == tag_description.size
           frame_name == IF tag_description.hasName
                         THEN tag_description.name
                         ELSE TagName(id)
           description == [id |-> id, size |-> size, frame_name |-> frame_name]
       IN IF tag_description.sizeType # "double"
          THEN Parsed(TypeError(as), EmptyMap)
          ELSE parseStandaloneFrom(standalone_tags, i + 1,
                                   MapInsert(descriptions, id, description), as)

parseStandaloneTags(standalone_tags, as) ==
  parseStandaloneFrom(standalone_tags, 1, EmptyMap, as)

\* The check of one bundle member against the standalone registry:
\* ROS_ASSERT(size == standaloneDescription->size())
SizeCheckFails(standalone, id, size, as) ==
  as /\ HasStandalone(standalone, id) /\ size # standalone[id].size

\* The loop over a bundle's layout from member j on
RECURSIVE parseMembersFrom(_, _, _, _, _)
parseMembersFrom(member_tags, j, bundle_i, standalone, as) ==
  IF j > Len(member_tags)
  THEN Parsed("ok", bundle_i)
  ELSE LET tag == member_tags[j]
       IN IF tag.sizeType # "double"
          THEN Parsed(TypeError(as), bundle_i)
          ELSE IF SizeCheckFails(standalone, tag.id, tag.size, as)
          THEN Parsed("abort", bundle_i)
          ELSE parseMembersFrom(member_tags, j + 1,
                 addMemberTag(bundle_i, tag.id, tag.size, MemberTransform(tag.pose)),
                 standalone, as)

\* The loop over the bundles from bundle i on (i counts from 1 here, the
\* default name counts from 0)
RECURSIVE parseBundlesFrom(_, _, _, _, _)
parseBundlesFrom(tag_bundles, i, descriptions, standalone, as) ==
  IF i > Len(tag_bundles)
  THEN Parsed("ok", descriptions)
  ELSE LET bundle_description == tag_bundles[i]
           bundleName == IF bundle_description.hasName
                         THEN bundle_description.name
                         ELSE BundleName(i - 1)
           r == parseMembersFrom(bundle_description.layout, 1,
                                 NewBundle(bundleName), standalone, as)
       IN IF r.status # "ok"
          THEN Parsed(r.status, <<>>)
          ELSE parseBundlesFrom(tag_bundles, i + 1,
                                Append(descriptions, r.value), standalone, as)

parseTagBundles(tag_bundles, standalone, as) ==
  parseBundlesFrom(tag_bundles, 1, <<>>, standalone, as)

----------------------------------------------------------------------------
\* The state of a detector instance

\* threads that may call into the instance
NThreads == 2

Threads == 1 .. NThreads

\* detectTags' position and locals while no call is running
IdleCall ==
  [pc |-> "idle", mine |-> 0,
   count |-> 0, duplicate_detected |-> FALSE, pruned |-> <<>>,
   i |-> 0, j |-> 0,
   detections |-> <<>>, detection_names |-> <<>>,
   bundleObjectPoints |-> EmptyMap, bundleImagePoints |-> EmptyMap,
   warnRequests |-> <<>>, sent |-> <<>>]

NoProbe == [pass |-> 0, input |-> <<>>, out1 |-> <<>>, pruned1 |-> <<>>,
            out2 |-> <<>>, pruned2 |-> <<>>]

\* The members the constructor's initializer list and body leave as they
\* are: detections_ is not initialized, so it holds NULL or garbage.
FreshBuffers ==
  /\ detections_ \in {Null, Garbage}
  /\ zdata = <<>>
  /\ zfrees = <<>>
  /\ wildFree = FALSE
  /\ call = [t \in Threads |-> IdleCall]
  /\ probe = NoProbe

\* What the constructor logs for one section: ROS_WARN when the parameter
\* is absent, ROS_ERROR_STREAM in the catch block, ROS_FATAL from a failed
\* ROS_ASSERT
Logged(section, status) ==
  CASE status = "absent" -> {<<"WARN", section, "none specified">>}
    [] status = "throw" -> {<<"ERROR", section, "error loading descriptions">>}
    [] status = "abort" -> {<<"FATAL", section, "ASSERTION FAILED">>}
    [] OTHER -> {}

\* What the constructor's two getParam/parse blocks come to
StandaloneOutcome(p, as) ==
  IF p.standalone_tags.present
  THEN parseStandaloneTags(p.standalone_tags.value, as)
  ELSE Parsed("absent", EmptyMap)

BundlesOutcome(p, standalone, as) ==
  IF p.tag_bundles.present
  THEN parseTagBundles(p.tag_bundles.value, standalone, as)
  ELSE Parsed("absent", <<>>)

\* Constructor, first part: the standalone_tags parameter
LoadStandalone ==
  /\ life = "ctor_standalone"
  /\ LET r == StandaloneOutcome(param, asserts)
     IN /\ life' = IF r.status = "abort" THEN "aborted" ELSE "ctor_bundles"
        /\ standalone_tag_descriptions_' =
             IF r.status = "ok" THEN r.value ELSE standalone_tag_descriptions_
        /\ ctorLog' = ctorLog \cup Logged("standalone tag", r.status)
  /\ UNCHANGED <<param, asserts, tag_bundle_descriptions_, publish_tf_, detections_,
                 zdata, zfrees, wildFree, call, callsLeft, callers, probe>>

\* Constructor, second part: the tag_bundles parameter, then the detector
\* set-up, which touches none of the modelled members
LoadBundles ==
  /\ life = "ctor_bundles"
  /\ LET r == BundlesOutcome(param, standalone_tag_descriptions_, asserts)
     IN /\ life' = IF r.status = "abort" THEN "aborted" ELSE "alive"
        /\ tag_bundle_descriptions_' =
             IF r.status = "ok" THEN r.value ELSE tag_bundle_descriptions_
        /\ ctorLog' = ctorLog \cup Logged("tag bundle", r.status)
  /\ UNCHANGED <<param, asserts, standalone_tag_descriptions_, publish_tf_, detections_,
                 zdata, zfrees, wildFree, call, callsLeft, callers, probe>>

\* zarray_destroy(p): frees the array p points to; NULL is ignored
zarray_destroy_frees(p, frees) ==
  IF p \in {Null, Garbage} THEN frees ELSE [frees EXCEPT ![p] = @ + 1]

\* ~TagDetector: zarray_destroy(detections_)
Destroy ==
  /\ life = "alive"
  /\ \A t \in Threads : call[t].pc = "idle"
  /\ life' = "destroyed"
  /\ zfrees' = zarray_destroy_frees(detections_, zfrees)
  /\ wildFree' = (wildFree \/ detections_ = Garbage)
  /\ UNCHANGED <<param, asserts, ctorLog, standalone_tag_descriptions_,
                 tag_bundle_descriptions_, publish_tf_, detections_, zdata,
                 call, callsLeft, callers, probe>>

----------------------------------------------------------------------------
\* Specification of the constructor: every parameter set within the bounds

\* ids and list lengths of the parameter sets given to the constructor
MaxLoadId == 1

MaxLoadBundles == 1

NoPose == [x |-> 0, y |-> 0, z |-> 0, q |-> "id"]

\* entries of standalone_tags: size written as a double, or as an integer
LoadStandaloneEntries ==
  [id : 0..MaxLoadId, size : Sizes, sizeType : {"double", "int"},
   hasName : {FALSE}, name : {Name("", -1)}]

LoadMemberEntries ==
  [id : 0..MaxLoadId, size : Sizes, sizeType : {"double", "int"}, pose : {NoPose}]

\* a layout names an id once
DistinctIds(layout) ==
  \A a, b \in 1..Len(layout) : a # b => layout[a].id # layout[b].id

LoadLayouts ==
  {l \in SeqsUpTo(LoadMemberEntries, MaxMembers) : Len(l) >= 1 /\ DistinctIds(l)}

LoadBundleEntries == [hasName : {FALSE}, name : {Name("", -1)}, layout : LoadLayouts]

Given(S) == [present : {TRUE}, value : S] \cup {[present |-> FALSE, value |-> <<>>]}

LoadParams ==
  [standalone_tags : Given(SeqsUpTo(LoadStandaloneEntries, MaxStandalone)),
   tag_bundles : Given(SeqsUpTo(LoadBundleEntries, MaxLoadBundles)),
   publish_tf : {FALSE}]

LoadInit ==
  /\ param \in LoadParams
  /\ asserts \in BOOLEAN
  /\ life = "ctor_standalone"
  /\ publish_tf_ = param.publish_tf
  /\ ctorLog = {}
  /\ standalone_tag_descriptions_ = EmptyMap
  /\ tag_bundle_descriptions_ = <<>>
  /\ callers = {1}
  /\ callsLeft = 0
  /\ FreshBuffers

LoadNext == LoadStandalone \/ LoadBundles \/ Destroy

SpecLoad == LoadInit /\ [][LoadNext]_vars

----------------------------------------------------------------------------
\* removeDuplicates

\* The set of results idComparison(first, second) can return when qsort
\* compares the array slots holding detections d1 and d2.  first and second
\* point to the slots, which hold apriltag_detection_t*; the code casts them
\* to apriltag_detection_t* itself, so ->id reads the bytes beside the slot
\* (part of the neighbouring pointer, or memory past the elements) and not
\* d1.id or d2.id: the result is unrelated to the ids.
idComparison(d1, d2) == {-1, 0, 1}

\* zarray_sort(detections_, &idComparison): qsort leaves a permutation in
\* which no element is reported greater than its successor
zarray_sort(arr) ==
  LET n == Len(arr)
      perms == {[k \in 1..n |-> arr[f[k]]] : f \in Permutations(1..n)}
  IN {s \in perms : \A k \in 1..(n - 1) : \E c \in idComparison(s[k], s[k + 1]) : c <= 0}

\* zarray_remove_index(za, idx, shuffle = 0): idx counts from 0
zarray_remove_index(arr, idx) ==
  [k \in 1..(Len(arr) - 1) |-> IF k <= idx THEN arr[k] ELSE arr[k + 1]]

\* A sentinel that is a tag id
NoSuccessorZero == 1 - 1

\* id_next when the current element has no successor
NoSuccessor == -1

\* A scan whose else branch forgets count++
removeDuplicatesStepKeepsCount(arr, count, duplicate_detected) ==
  IF count > Len(arr) - 1
  THEN [returns |-> TRUE, arr |-> arr, count |-> count,
        duplicate_detected |-> duplicate_detected, warn |-> <<>>]
  ELSE LET id_current == arr[count + 1].id
           id_next == IF count < Len(arr) - 1 THEN arr[count + 2].id ELSE NoSuccessor
       IN IF id_current = id_next \/ (id_current # id_next /\ duplicate_detected)
          THEN [returns |-> FALSE, arr |-> zarray_remove_index(arr, count), count |-> count,
                duplicate_detected |-> (id_current = id_next),
                warn |-> IF id_current # id_next THEN <<id_current>> ELSE <<>>]
          ELSE [returns |-> FALSE, arr |-> arr, count |-> count,
                duplicate_detected |-> duplicate_detected, warn |-> <<>>]

\* One pass through the body of removeDuplicates' while (true) loop
removeDuplicatesStep(arr, count, duplicate_detected) ==
  IF count > Len(arr) - 1
  THEN [returns |-> TRUE, arr |-> arr, count |-> count,
        duplicate_detected |-> duplicate_detected, warn |-> <<>>]
  ELSE LET id_current == arr[count + 1].id
           id_next == IF count < Len(arr) - 1 THEN arr[count + 2].id ELSE NoSuccessor
       IN IF id_current = id_next \/ (id_current # id_next /\ duplicate_detected)
          THEN [returns |-> FALSE, arr |-> zarray_remove_index(arr, count), count |-> count,
                duplicate_detected |-> (id_current = id_next),
                warn |-> IF id_current # id_next THEN <<id_current>> ELSE <<>>]
          ELSE [returns |-> FALSE, arr |-> arr, count |-> count + 1,
                duplicate_detected |-> duplicate_detected, warn |-> <<>>]

----------------------------------------------------------------------------
\* Correspondences and poses

\* T_oi.get_minor<3, 4>(0, 0) * v
MulMinor(T_oi, v) ==
  [r \in 1..3 |-> T_oi[r][1] * v[1] + T_oi[r][2] * v[2] + T_oi[r][3] * v[3] + T_oi[r][4] * v[4]]

\* The corners taken clockwise instead of counterclockwise
addObjectPointsClockwise(s, T_oi, objectPoints) ==
  objectPoints \o << MulMinor(T_oi, <<-s, -s, 0, 1>>),
                     MulMinor(T_oi, <<-s,  s, 0, 1>>),
                     MulMinor(T_oi, << s,  s, 0, 1>>),
                     MulMinor(T_oi, << s, -s, 0, 1>>) >>

addObjectPoints(s, T_oi, objectPoints) ==
  objectPoints \o << MulMinor(T_oi, <<-s, -s, 0, 1>>),
                     MulMinor(T_oi, << s, -s, 0, 1>>),
                     MulMinor(T_oi, << s,  s, 0, 1>>),
                     MulMinor(T_oi, <<-s,  s, 0, 1>>) >>

tag_x == <<-1, 1, 1, -1>>

tag_y == <<1, 1, -1, -1>>

\* homography_project(detection->H, x, y): the pixel the detection's
\* homography sends the tag-local point (x, y) to
homography_project(detection, x, y) == <<detection.uid, x, y>>

addImagePoints(detection, imagePoints) ==
  imagePoints \o [k \in 1..4 |-> homography_project(detection, tag_x[k], tag_y[k])]

\* getRelativeTransform + makeTagPose: the pose cv::solvePnP returns for
\* these correspondences
getRelativeTransform(objectPoints, imagePoints) ==
  [objectPoints |-> objectPoints, imagePoints |-> imagePoints]

\* std::map operator[]: a missing key reads as an empty vector
MapGet(m, k) == IF k \in DOMAIN m THEN m[k] ELSE <<>>

MapPut(m, k, v) == [x \in DOMAIN m \cup {k} |-> IF x = k THEN v ELSE m[x]]

\* a lookup that warns about every missing id, whatever printWarning says
findStandaloneTagDescriptionWarnsAlways(descriptions, id, printWarning) ==
  IF id \notin DOMAIN descriptions
  THEN [found |-> FALSE, warned |-> TRUE]
  ELSE [found |-> TRUE, warned |-> FALSE]

\* findStandaloneTagDescription(id, descriptionContainer, printWarning)
findStandaloneTagDescription(descriptions, id, printWarning) ==
  IF id \notin DOMAIN descriptions
  THEN [found |-> FALSE, warned |-> printWarning]
  ELSE [found |-> TRUE, warned |-> FALSE]

\* A loop over the bundles that leaves at the first bundle the detection
\* is a member of
RECURSIVE collectBundlePointsFirstOnly(_, _, _, _)
collectBundlePointsFirstOnly(bundles, j, detection, acc) ==
  IF j > Len(bundles)
  THEN acc
  ELSE LET bundle == bundles[j]
           tagID == detection.id
       IN IF tagID \in DOMAIN bundle.id2idx_
          THEN LET bundleName == bundle.name
                   s == memberSize(bundle, tagID) \div 2
               IN [is_part_of_bundle |-> TRUE,
                   bundleObjectPoints |->
                     MapPut(acc.bundleObjectPoints, bundleName,
                            addObjectPoints(s, memberT_oi(bundle, tagID),
                                            MapGet(acc.bundleObjectPoints, bundleName))),
                   bundleImagePoints |->
                     MapPut(acc.bundleImagePoints, bundleName,
                            addImagePoints(detection,
                                           MapGet(acc.bundleImagePoints, bundleName)))]
          ELSE collectBundlePointsFirstOnly(bundles, j + 1, detection, acc)

\* detectTags' loop over the bundles for one detection, from bundle j on:
\* acc carries bundleObjectPoints, bundleImagePoints and is_part_of_bundle
RECURSIVE collectBundlePoints(_, _, _, _)
collectBundlePoints(bundles, j, detection, acc) ==
  IF j > Len(bundles)
  THEN acc
  ELSE LET bundle == bundles[j]
           tagID == detection.id
       IN IF tagID \in DOMAIN bundle.id2idx_
          THEN LET bundleName == bundle.name
                   s == memberSize(bundle, tagID) \div 2
               IN collectBundlePoints(bundles, j + 1, detection,
                    [is_part_of_bundle |-> TRUE,
                     bundleObjectPoints |->
                       MapPut(acc.bundleObjectPoints, bundleName,
                              addObjectPoints(s, memberT_oi(bundle, tagID),
                                              MapGet(acc.bundleObjectPoints, bundleName))),
                     bundleImagePoints |->
                       MapPut(acc.bundleImagePoints, bundleName,
                              addImagePoints(detection,
                                             MapGet(acc.bundleImagePoints, bundleName)))])
          ELSE collectBundlePoints(bundles, j + 1, detection, acc)

\* The body of detectTags' loop over the detections, for detection i
\* (counted from 0) of array arr, on the locals c of the call
correlateDetection(c, arr, standalone, bundles) ==
  LET detection == arr[c.i + 1]
      tagID == detection.id
      acc == collectBundlePoints(bundles, 1, detection,
               [is_part_of_bundle |-> FALSE,
                bundleObjectPoints |-> c.bundleObjectPoints,
                bundleImagePoints |-> c.bundleImagePoints])
      f == findStandaloneTagDescription(standalone, tagID, ~acc.is_part_of_bundle)
      c1 == [c EXCEPT !.i = c.i + 1,
                      !.bundleObjectPoints = acc.bundleObjectPoints,
                      !.bundleImagePoints = acc.bundleImagePoints,
                      !.warnRequests = IF f.warned THEN Append(@, tagID) ELSE @]
  IN IF ~f.found
     THEN c1
     ELSE LET tag_size == standalone[tagID].size
              standaloneTagObjectPoints == addObjectPoints(tag_size \div 2, Eye, <<>>)
              standaloneTagImagePoints == addImagePoints(detection, <<>>)
              tag_detection ==
                [id |-> <<detection.id>>, size |-> <<tag_size>>,
                 pose |-> getRelativeTransform(standaloneTagObjectPoints,
                                               standaloneTagImagePoints)]
          IN [c1 EXCEPT !.detections = Append(@, tag_detection),
                        !.detection_names = Append(@, standalone[tagID].frame_name)]

\* A loop body that puts the bundle's entry and name at the front of the
\* result instead of its back
estimateBundleAtFront(c, bundles) ==
  LET bundle == bundles[c.j + 1]
      bundleName == bundle.name
      c1 == [c EXCEPT !.j = c.j + 1]
  IN IF bundleName \notin DOMAIN c.bundleObjectPoints
     THEN c1
     ELSE LET tag_detection ==
                [id |-> bundleIds(bundle), size |-> bundleSizes(bundle),
                 pose |-> getRelativeTransform(c.bundleObjectPoints[bundleName],
                                               MapGet(c.bundleImagePoints, bundleName))]
          IN [c1 EXCEPT !.detections = <<tag_detection>> \o @,
                        !.detection_names = <<bundle.name>> \o @]

\* A loop body that erases the set it has solved from
estimateBundleConsumesSet(c, bundles) ==
  LET bundle == bundles[c.j + 1]
      bundleName == bundle.name
      c1 == [c EXCEPT !.j = c.j + 1]
  IN IF bundleName \notin DOMAIN c.bundleObjectPoints
     THEN c1
     ELSE LET tag_detection ==
                [id |-> bundleIds(bundle), size |-> bundleSizes(bundle),
                 pose |-> getRelativeTransform(c.bundleObjectPoints[bundleName],
                                               MapGet(c.bundleImagePoints, bundleName))]
          IN [c1 EXCEPT !.detections = Append(@, tag_detection),
                        !.detection_names = Append(@, bundle.name),
                        !.bundleObjectPoints =
                           [n \in DOMAIN @ \ {bundleName} |-> @[n]]]

\* The body of detectTags' loop over the bundles, for bundle j (from 0)
estimateBundle(c, bundles) ==
  LET bundle == bundles[c.j + 1]
      bundleName == bundle.name
      c1 == [c EXCEPT !.j = c.j + 1]
  IN IF bundleName \notin DOMAIN c.bundleObjectPoints
     THEN c1
     ELSE LET tag_detection ==
                [id |-> bundleIds(bundle), size |-> bundleSizes(bundle),
                 pose |-> getRelativeTransform(c.bundleObjectPoints[bundleName],
                                               MapGet(c.bundleImagePoints, bundleName))]
          IN [c1 EXCEPT !.detections = Append(@, tag_detection),
                        !.detection_names = Append(@, bundle.name)]

\* A broadcast loop that does not look at publish_tf_
broadcastsWhateverTheSwitch(c, publish) ==
  [k \in 1..Len(c.detections) |->
     [pose |-> c.detections[k].pose, child |-> c.detection_names[k]]]

\* The transforms detectTags broadcasts: one per entry of the result, named
\* by detection_names[i]
OutOfRange == Name("<read past the end of detection_names>", -1)

broadcasts(c, publish) ==
  IF publish
  THEN [k \in 1..Len(c.detections) |->
          [pose |-> c.detections[k].pose,
           child |-> IF k <= Len(c.detection_names) THEN c.detection_names[k]
                     ELSE OutOfRange]]
  ELSE <<>>

----------------------------------------------------------------------------
\* detectTags, step by step, called by thread t

\* The raw detections of a frame showing the tag ids of f, in the
\* decoder's order
RawDetections(f) == [k \in 1..Len(f) |-> [uid |-> k, id |-> f[k]]]

Frames == SeqsUpTo(IDs, MaxFrame)

\* A detection step that keeps the decoder's array in a local: the member
\* detections_ and the array it points to stay as they were
DetectIntoLocal(t) ==
  /\ life = "alive"
  /\ t \in callers
  /\ call[t].pc = "idle"
  /\ callsLeft > 0
  /\ zfrees' = Append(zfrees, 0)
  /\ call' = [call EXCEPT ![t] = [IdleCall EXCEPT !.pc = "sort",
                                                 !.mine = Len(zfrees) + 1]]
  /\ callsLeft' = callsLeft - 1
  /\ UNCHANGED <<param, asserts, life, ctorLog, standalone_tag_descriptions_,
                 tag_bundle_descriptions_, publish_tf_, detections_, zdata,
                 wildFree, callers, probe>>

\* Entry up to detections_ = apriltag_detector_detect(td_, &image): the
\* decoder allocates a new array and detections_ is overwritten
Detect(t) ==
  /\ life = "alive"
  /\ t \in callers
  /\ call[t].pc = "idle"
  /\ callsLeft > 0
  /\ \E f \in Frames :
       /\ zdata' = RawDetections(f)
       /\ zfrees' = Append(zfrees, 0)
       /\ detections_' = Len(zfrees) + 1
       /\ call' = [call EXCEPT ![t] = [IdleCall EXCEPT !.pc = "sort",
                                                      !.mine = Len(zfrees) + 1]]
  /\ callsLeft' = callsLeft - 1
  /\ UNCHANGED <<param, asserts, life, ctorLog, standalone_tag_descriptions_,
                 tag_bundle_descriptions_, publish_tf_, wildFree, callers, probe>>

\* removeDuplicates: zarray_sort, count = 0, duplicate_detected = false
Sort(t) ==
  /\ call[t].pc = "sort"
  /\ zdata' \in zarray_sort(zdata)
  /\ call' = [call EXCEPT ![t].pc = "scan", ![t].count = 0,
                          ![t].duplicate_detected = FALSE]
  /\ UNCHANGED <<param, asserts, life, ctorLog, standalone_tag_descriptions_,
                 tag_bundle_descriptions_, publish_tf_, detections_, zfrees,
                 wildFree, callsLeft, callers, probe>>

\* removeDuplicates: one pass of the while loop; on return, detectTags
\* sets up its locals for the loop over the detections
Scan(t) ==
  /\ call[t].pc = "scan"
  /\ LET r == removeDuplicatesStep(zdata, call[t].count, call[t].duplicate_detected)
     IN /\ zdata' = r.arr
        /\ call' = [call EXCEPT ![t].pc = IF r.returns THEN "correlate" ELSE "scan",
                                ![t].count = r.count,
                                ![t].duplicate_detected = r.duplicate_detected,
                                ![t].pruned = @ \o r.warn,
                                ![t].i = 0]
  /\ UNCHANGED <<param, asserts, life, ctorLog, standalone_tag_descriptions_,
                 tag_bundle_descriptions_, publish_tf_, detections_, zfrees,
                 wildFree, callsLeft, callers, probe>>

\* One pass of the loop over the detections, or its exit
Correlate(t) ==
  /\ call[t].pc = "correlate"
  /\ call' = [call EXCEPT ![t] =
                IF call[t].i < Len(zdata)
                THEN correlateDetection(call[t], zdata, standalone_tag_descriptions_,
                                        tag_bundle_descriptions_)
                ELSE [call[t] EXCEPT !.pc = "bundles", !.j = 0]]
  /\ UNCHANGED <<param, asserts, life, ctorLog, standalone_tag_descriptions_,
                 tag_bundle_descriptions_, publish_tf_, detections_, zdata, zfrees,
                 wildFree, callsLeft, callers, probe>>

\* One pass of the loop over the bundles, or its exit
Estimate(t) ==
  /\ call[t].pc = "bundles"
  /\ call' = [call EXCEPT ![t] =
                IF call[t].j < Len(tag_bundle_descriptions_)
                THEN estimateBundle(call[t], tag_bundle_descriptions_)
                ELSE [call[t] EXCEPT !.pc = "publish"]]
  /\ UNCHANGED <<param, asserts, life, ctorLog, standalone_tag_descriptions_,
                 tag_bundle_descriptions_, publish_tf_, detections_, zdata, zfrees,
                 wildFree, callsLeft, callers, probe>>

\* The timing report and the transform broadcasts; the call is about to
\* return tag_detection_array
Publish(t) ==
  /\ call[t].pc = "publish"
  /\ call' = [call EXCEPT ![t].pc = "done",
                          ![t].sent = broadcasts(call[t], publish_tf_)]
  /\ UNCHANGED <<param, asserts, life, ctorLog, standalone_tag_descriptions_,
                 tag_bundle_descriptions_, publish_tf_, detections_, zdata, zfrees,
                 wildFree, callsLeft, callers, probe>>

\* return tag_detection_array: the locals go out of scope
Return(t) ==
  /\ call[t].pc = "done"
  /\ call' = [call EXCEPT ![t] = IdleCall]
  /\ UNCHANGED <<param, asserts, life, ctorLog, standalone_tag_descriptions_,
                 tag_bundle_descriptions_, publish_tf_, detections_, zdata, zfrees,
                 wildFree, callsLeft, callers, probe>>

----------------------------------------------------------------------------
\* The instance after its constructor has run on parameters p

Constructed(p, as) ==
  LET r1 == StandaloneOutcome(p, as)
      standalone == IF r1.status = "ok" THEN r1.value ELSE EmptyMap
      r2 == BundlesOutcome(p, standalone, as)
  IN [alive |-> r1.status # "abort" /\ r2.status # "abort",
      standalone |-> standalone,
      bundles |-> IF r2.status = "ok" THEN r2.value ELSE <<>>,
      log |-> Logged("standalone tag", r1.status) \cup Logged("tag bundle", r2.status)]

\* The state right after a constructor call that returned
ConstructedWith(p, as) ==
  /\ param = p
  /\ asserts = as
  /\ Constructed(p, as).alive
  /\ life = "alive"
  /\ ctorLog = Constructed(p, as).log
  /\ standalone_tag_descriptions_ = Constructed(p, as).standalone
  /\ tag_bundle_descriptions_ = Constructed(p, as).bundles
  /\ publish_tf_ = p.publish_tf
  /\ FreshBuffers

----------------------------------------------------------------------------
\* Specification of one frame: a constructed detector, one detectTags call
\* on any frame within the bounds, then the destructor

\* The parameter sets: tag ids 0..MaxId; standalone tags listed by
\* ascending id with size 2 * (id + 1) and the default frame name; in a
\* layout each id once, the first member at the bundle origin, the others
\* offset; the first bundle uses the standalone sizes, later bundles the
\* other size; a bundle is unnamed or named "B".
StandaloneSize(id) == IF id % 2 = 0 THEN 2 ELSE 4

OtherSize(size) == IF size = 2 THEN 4 ELSE 2

OffsetPose == [x |-> 1, y |-> 0, z |-> 0, q |-> "z90"]

FrameStandaloneLists ==
  {l \in SeqsUpTo([id : IDs, size : Sizes, sizeType : {"double"},
                   hasName : {FALSE}, name : {Name("", -1)}], MaxStandalone) :
     /\ \A a \in 1..Len(l) : l[a].size = StandaloneSize(l[a].id)
     /\ \A a \in 1..(Len(l) - 1) : l[a].id < l[a + 1].id}

FrameLayouts(i) ==
  {l \in SeqsUpTo([id : IDs, size : Sizes, sizeType : {"double"},
                   pose : {NoPose, OffsetPose}], MaxMembers) :
     /\ Len(l) >= 1
     /\ DistinctIds(l)
     /\ \A a \in 1..Len(l) :
          /\ l[a].size = IF i = 1 THEN StandaloneSize(l[a].id)
                         ELSE OtherSize(StandaloneSize(l[a].id))
          /\ l[a].pose = IF a = 1 THEN NoPose ELSE OffsetPose}

FrameBundles(i) ==
  [hasName : {FALSE}, name : {Name("", -1)}, layout : FrameLayouts(i)]
    \cup [hasName : {TRUE}, name : {Name("B", -1)}, layout : FrameLayouts(i)]

\* the tag_bundles lists of n entries: entry i is one of FrameBundles(i)
RECURSIVE FrameBundleListsOf(_)
FrameBundleListsOf(n) ==
  IF n = 0
  THEN {<<>>}
  ELSE {Append(l, b) : l \in FrameBundleListsOf(n - 1), b \in FrameBundles(n)}

FrameBundleLists == UNION {FrameBundleListsOf(n) : n \in 0..MaxBundles}

FrameParams ==
  [standalone_tags : [present : {TRUE}, value : FrameStandaloneLists],
   tag_bundles : [present : {TRUE}, value : FrameBundleLists],
   publish_tf : BOOLEAN]

Init ==
  /\ \E p \in FrameParams, as \in BOOLEAN : ConstructedWith(p, as)
  /\ callers = {1}
  /\ callsLeft = 1

Next ==
  \/ \E t \in Threads :
       \/ Detect(t)
       \/ Sort(t)
       \/ Scan(t)
       \/ Correlate(t)
       \/ Estimate(t)
       \/ Publish(t)
       \/ Return(t)
  \/ Destroy

Spec == Init /\ [][Next]_vars

----------------------------------------------------------------------------
\* Specification of the buffer's life: a small registry, up to MaxCalls
\* detectTags calls one after the other, then the destructor

LifeParams ==
  [standalone_tags : [present : {TRUE}, value : {l \in FrameStandaloneLists : Len(l) = 1}],
   tag_bundles : [present : {TRUE},
                  value : {<<b>> : b \in {x \in FrameBundles(1) :
                                            ~x.hasName /\ Len(x.layout) = 1}}],
   publish_tf : {FALSE}]

LifeInit ==
  /\ \E p \in LifeParams : ConstructedWith(p, TRUE)
  /\ callers = {1}
  /\ callsLeft = MaxCalls

SpecLife == LifeInit /\ [][Next]_vars

----------------------------------------------------------------------------
\* Specification of removeDuplicates on its own: any array of detections
\* within the bounds, removeDuplicates applied to it, and applied once more
\* to what it left

MaxRdId == 2

RdInputs == {RawDetections(f) : f \in SeqsUpTo(0..MaxRdId, MaxDet)}

RdInit ==
  /\ param = [standalone_tags |-> [present |-> FALSE, value |-> <<>>],
              tag_bundles |-> [present |-> FALSE, value |-> <<>>],
              publish_tf |-> FALSE]
  /\ asserts = TRUE
  /\ life = "alive"
  /\ ctorLog = Constructed(param, asserts).log
  /\ standalone_tag_descriptions_ = EmptyMap
  /\ tag_bundle_descriptions_ = <<>>
  /\ publish_tf_ = FALSE
  /\ detections_ = 1
  /\ zdata \in RdInputs
  /\ zfrees = <<0>>
  /\ wildFree = FALSE
  /\ call = [t \in Threads |->
               IF t = 1 THEN [IdleCall EXCEPT !.pc = "sort", !.mine = 1] ELSE IdleCall]
  /\ callers = {1}
  /\ callsLeft = 0
  /\ probe = [NoProbe EXCEPT !.pass = 1, !.input = zdata]

\* The first application has returned: keep what it left and apply again
RdAgain ==
  /\ probe.pass = 1
  /\ call[1].pc = "correlate"
  /\ probe' = [probe EXCEPT !.pass = 2, !.out1 = zdata, !.pruned1 = call[1].pruned]
  /\ call' = [call EXCEPT ![1] = [IdleCall EXCEPT !.pc = "sort", !.mine = 1]]
  /\ UNCHANGED <<param, asserts, life, ctorLog, standalone_tag_descriptions_,
                 tag_bundle_descriptions_, publish_tf_, detections_, zdata, zfrees,
                 wildFree, callsLeft, callers>>

\* The second application has returned
RdDone ==
  /\ probe.pass = 2
  /\ call[1].pc = "correlate"
  /\ probe' = [probe EXCEPT !.pass = 3, !.out2 = zdata, !.pruned2 = call[1].pruned]
  /\ call' = [call EXCEPT ![1] = IdleCall]
  /\ UNCHANGED <<param, asserts, life, ctorLog, standalone_tag_descriptions_,
                 tag_bundle_descriptions_, publish_tf_, detections_, zdata, zfrees,
                 wildFree, callsLeft, callers>>

RdNext == Sort(1) \/ Scan(1) \/ RdAgain \/ RdDone

SpecRD == RdInit /\ [][RdNext]_vars

----------------------------------------------------------------------------
\* Properties of removeDuplicates (checked under SpecRD)

Occurrences(arr, id) == Cardinality({k \in 1..Len(arr) : arr[k].id = id})

\* the detections whose id occurs exactly once in arr
OnceIn(arr) == {arr[k] : k \in {x \in 1..Len(arr) : Occurrences(arr, arr[x].id) = 1}}

IdsOf(arr) == {arr[k].id : k \in 1..Len(arr)}

AllIdsDistinct(arr) == \A id \in IdsOf(arr) : Occurrences(arr, id) = 1

\* how often id was reported in the pruning warnings w
Warnings(w, id) == Cardinality({k \in 1..Len(w) : w[k] = id})

FirstPassDone == probe.pass >= 2

SecondPassDone == probe.pass = 3

\* C1: after removeDuplicates the array holds exactly the detections whose
\* id occurs once in the input: every copy of a repeated id is gone, no
\* detection with a once-occurring id is gone.
C1_KeepsExactlyOnceOccurringIds ==
  FirstPassDone =>
    /\ Range(probe.out1) = OnceIn(probe.input)
    /\ Len(probe.out1) = Cardinality(OnceIn(probe.input))

\* C4: applying removeDuplicates again to its own result removes nothing
\* and warns about nothing.
C4_SecondApplicationChangesNothing ==
  SecondPassDone =>
    /\ Range(probe.out2) = Range(probe.out1)
    /\ Len(probe.out2) = Len(probe.out1)
    /\ probe.pruned2 = <<>>

C6_OneWarningPerRepeatedId ==
  FirstPassDone =>
    \A id \in IdsOf(probe.input) :
      Warnings(probe.pruned1, id) = IF Occurrences(probe.input, id) >= 2 THEN 1 ELSE 0

----------------------------------------------------------------------------
\* Properties of one detectTags call (checked under Spec)

\* the call of thread 1 has run to its return statement
Returning == call[1].pc = "done"

\* the detections removeDuplicates left in the buffer
Survivors == zdata

Result == call[1].detections

ResultNames == call[1].detection_names

MemberIds(bundle) == {bundle.tags[k].id : k \in 1..Len(bundle.tags)}

Bundles == tag_bundle_descriptions_

\* survivors that have a standalone description
StandaloneSurvivors ==
  {k \in 1..Len(Survivors) : Survivors[k].id \in DOMAIN standalone_tag_descriptions_}

\* bundles of which a member id survives
ObservedBundles ==
  {j \in 1..Len(Bundles) : \E k \in 1..Len(Survivors) : Survivors[k].id \in MemberIds(Bundles[j])}

\* bundles that share their name with a bundle of which a member id survives
NameObservedBundles ==
  {j \in 1..Len(Bundles) : \E o \in ObservedBundles : Bundles[o].name = Bundles[j].name}

\* entries of the result for survivor k as a standalone tag
StandaloneEntriesOf(k) ==
  {e \in 1..Len(Result) :
     /\ Result[e].id = <<Survivors[k].id>>
     /\ ResultNames[e] = standalone_tag_descriptions_[Survivors[k].id].frame_name
     /\ \A q \in 1..Len(Result[e].pose.imagePoints) :
          Result[e].pose.imagePoints[q][1] = Survivors[k].uid}

\* entries of the result for bundle j
BundleEntriesOf(j) ==
  {e \in 1..Len(Result) :
     /\ Result[e].id = bundleIds(Bundles[j])
     /\ Result[e].size = bundleSizes(Bundles[j])
     /\ ResultNames[e] = Bundles[j].name}

\* C2: the detections the call goes on with are the non-duplicated ones, so
\* no two of them share an id; the result has exactly one entry for each of
\* them whose id has a standalone description, exactly one for each bundle
\* of which a member id survives, and no other entry.
C2_OneEntryPerStandaloneSurvivorAndObservedBundle ==
  Returning =>
    /\ AllIdsDistinct(Survivors)
    /\ \A k \in StandaloneSurvivors : Cardinality(StandaloneEntriesOf(k)) = 1
    /\ \A j \in ObservedBundles : Cardinality(BundleEntriesOf(j)) = 1
    /\ Len(Result) = Cardinality(StandaloneSurvivors) + Cardinality(ObservedBundles)

\* what the call does return: one entry for each detection left in the
\* buffer whose id has a standalone description, one for each bundle whose
\* name is the name of a bundle of which a member id is left in the buffer,
\* and no other entry
EntriesFollowBufferAndBundleNames ==
  Returning =>
    /\ Len(ResultNames) = Len(Result)
    /\ \A k \in StandaloneSurvivors : Cardinality(StandaloneEntriesOf(k)) = 1
    /\ \A j \in NameObservedBundles : Cardinality(BundleEntriesOf(j)) = 1
    /\ Len(Result) = Cardinality(StandaloneSurvivors) + Cardinality(NameObservedBundles)

\* configured members of bundle j of which a detection survives
ObservedMembers(j) ==
  {id \in MemberIds(Bundles[j]) : \E k \in 1..Len(Survivors) : Survivors[k].id = id}

\* (survivor, bundle) pairs that feed the correspondence set kept under the
\* name of bundle j: the survivor's id is a member of a bundle of that name
Contributions(j) ==
  {<<k, o>> \in (1..Len(Survivors)) \X (1..Len(Bundles)) :
     /\ Bundles[o].name = Bundles[j].name
     /\ Survivors[k].id \in MemberIds(Bundles[o])}

\* the entry is bundle j's: all configured members in configuration order
ListsAllMembers(e, j) ==
  /\ Len(Result[e].id) = Len(Bundles[j].tags)
  /\ \A m \in 1..Len(Bundles[j].tags) :
       /\ Result[e].id[m] = Bundles[j].tags[m].id
       /\ Result[e].size[m] = Bundles[j].tags[m].size
  /\ ResultNames[e] = Bundles[j].name

\* C3: the entry of a bundle of which m >= 1 configured members are
\* observed lists the ids and sizes of all its configured members in
\* configuration order, and the correspondence set handed to the pose solve
\* holds exactly 4*m object points and 4*m image points.
C3_AllMembersListedFourPointsPerObserved ==
  Returning =>
    \A j \in ObservedBundles :
      \E e \in 1..Len(Result) :
        /\ ListsAllMembers(e, j)
        /\ Len(Result[e].pose.objectPoints) = 4 * Cardinality(ObservedMembers(j))
        /\ Len(Result[e].pose.imagePoints) = 4 * Cardinality(ObservedMembers(j))

\* what the call does hand to the solve: four object points and four image
\* points for each detection left in the buffer and each bundle of this
\* name that has the detection's id as a member, and no other point
PointsFollowBufferAndBundleNames ==
  Returning =>
    \A j \in ObservedBundles :
      \E e \in 1..Len(Result) :
        /\ ListsAllMembers(e, j)
        /\ Len(Result[e].pose.objectPoints) = 4 * Cardinality(Contributions(j))
        /\ Len(Result[e].pose.imagePoints) = 4 * Cardinality(Contributions(j))
        /\ \A q \in 1..Len(Result[e].pose.imagePoints) :
             \E c \in Contributions(j) :
               Result[e].pose.imagePoints[q][1] = Survivors[c[1]].uid

\* ids that are neither a bundle member nor a standalone tag
Unknown(id) ==
  /\ id \notin DOMAIN standalone_tag_descriptions_
  /\ \A j \in 1..Len(Bundles) : id \notin MemberIds(Bundles[j])

\* the survivors the loop over the detections has been through
Correlated == 1 .. (IF call[1].i < Len(Survivors) THEN call[1].i ELSE Len(Survivors))

\* uids of the detections some point of the call's correspondence sets or
\* result entries comes from
UidsUsed ==
  UNION {{call[1].bundleImagePoints[n][q][1] : q \in 1..Len(call[1].bundleImagePoints[n])} :
           n \in DOMAIN call[1].bundleImagePoints}
  \cup UNION {{Result[e].pose.imagePoints[q][1] : q \in 1..Len(Result[e].pose.imagePoints)} :
                e \in 1..Len(Result)}

InPipeline == call[1].pc \in {"correlate", "bundles", "publish", "done"}

\* C7: a surviving detection with an unknown id feeds no correspondence set
\* and no result entry; the 'no description found' warning is requested for
\* exactly the unknown ids the loop has been through, in their order; and
\* the loop goes on to the end of the buffer.
C7_UnknownTagSkippedWithWarning ==
  InPipeline =>
    /\ \A k \in 1..Len(Survivors) : Unknown(Survivors[k].id) => Survivors[k].uid \notin UidsUsed
    /\ call[1].warnRequests =
         [k \in 1..Len(SelectSeq(SubSeq(Survivors, 1, Cardinality(Correlated)),
                                 LAMBDA d : Unknown(d.id))) |->
            SelectSeq(SubSeq(Survivors, 1, Cardinality(Correlated)),
                      LAMBDA d : Unknown(d.id))[k].id]
    /\ call[1].pc # "correlate" => call[1].i = Len(Survivors)

\* C7 witness: the call returns a result entry for a detection that came
\* after an unknown one in the buffer, and the warning was requested for
\* the unknown id alone
C7_Witness ==
  /\ Returning
  /\ \E k \in 1..Len(Survivors) :
       /\ Unknown(Survivors[k].id)
       /\ call[1].warnRequests = <<Survivors[k].id>>
       /\ \E k2 \in (k + 1)..Len(Survivors) :
            /\ k2 \in StandaloneSurvivors
            /\ Cardinality(StandaloneEntriesOf(k2)) = 1

----------------------------------------------------------------------------
\* Properties of the detection buffer (checked under SpecLife)

\* arrays the decoder has produced and nobody has freed
LiveArrays == {a \in 1..Len(zfrees) : zfrees[a] = 0}

\* C10: the array of the previous call is freed when the next call
\* overwrites detections_, so at most one array is live at any time, and
\* once the detector is destroyed every array has been freed exactly once.
C10_OneLiveArrayEachFreedOnce ==
  /\ Cardinality(LiveArrays) <= 1
  /\ life = "destroyed" => \A a \in 1..Len(zfrees) : zfrees[a] = 1

----------------------------------------------------------------------------
\* Properties of the constructor (checked under SpecLoad)

StandaloneLoaded == life # "ctor_standalone"

BundlesLoaded == life \notin {"ctor_standalone", "ctor_bundles"}

\* the standalone_tags parameter has a field of the wrong type or names an
\* id twice
StandaloneConfigError ==
  /\ param.standalone_tags.present
  /\ LET l == param.standalone_tags.value
     IN \/ \E a \in 1..Len(l) : l[a].sizeType # "double"
        \/ \E a, b \in 1..Len(l) : a # b /\ l[a].id = l[b].id

\* the tag_bundles parameter has a field of the wrong type, or a member
\* whose size differs from the loaded standalone description of its id
BundleConfigError ==
  /\ param.tag_bundles.present
  /\ \E i \in 1..Len(param.tag_bundles.value) :
       LET l == param.tag_bundles.value[i].layout
       IN \E a \in 1..Len(l) :
            \/ l[a].sizeType # "double"
            \/ /\ l[a].id \in DOMAIN standalone_tag_descriptions_
               /\ l[a].size # standalone_tag_descriptions_[l[a].id].size

\* C8: a configuration error in a section leaves that section's
\* descriptions empty, is reported, and construction goes on.
C8_ConfigErrorLeavesSectionEmpty ==
  /\ (StandaloneLoaded /\ StandaloneConfigError) =>
       /\ standalone_tag_descriptions_ = EmptyMap
       /\ <<"ERROR", "standalone tag", "error loading descriptions">> \in ctorLog
       /\ life # "aborted"
  /\ (BundlesLoaded /\ BundleConfigError /\ ~StandaloneConfigError) =>
       /\ tag_bundle_descriptions_ = <<>>
       /\ <<"ERROR", "tag bundle", "error loading descriptions">> \in ctorLog
       /\ life # "aborted"

\* C9: in a constructed detector every id that is both a standalone tag and
\* a bundle member has the same size in both places.
C9_StandaloneAndMemberSizesAgree ==
  life \in {"alive", "destroyed"} =>
    \A j \in 1..Len(tag_bundle_descriptions_) :
      \A m \in 1..Len(tag_bundle_descriptions_[j].tags) :
        LET tag == tag_bundle_descriptions_[j].tags[m]
        IN tag.id \in DOMAIN standalone_tag_descriptions_ =>
             tag.size = standalone_tag_descriptions_[tag.id].size

----------------------------------------------------------------------------
\* Specification of reentrant use: one instance with a small registry, two
\* detectTags calls made by one thread one after the other, or by two
\* threads that may interleave at every step

\* tag 0 is a standalone tag, tag 1 the one member of the one bundle
ConcParams ==
  {p \in LifeParams :
     /\ p.standalone_tags.value[1].id = 0
     /\ p.tag_bundles.value[1].layout[1].id = 1}

ConcInit ==
  /\ \E p \in ConcParams : ConstructedWith(p, TRUE)
  /\ callers \in {{1}, {1, 2}}
  /\ callsLeft = 2

SpecConc == ConcInit /\ [][Next]_vars

\* the call of thread t is in removeDuplicates or in the loop over the
\* detections: it reads the array detections_ points to
Reading(t) == call[t].pc \in {"sort", "scan", "correlate"}

InFlight(t) == call[t].pc # "idle"

\* C11: while the calls on the instance come one at a time, every call
\* reads only the array of its own detection step; a call reads another
\* call's array only when that call's detection step ran while it was in
\* flight.
C11_SequentialCallsReadTheirOwnArray ==
  \A t \in Threads :
    Reading(t) =>
      /\ Cardinality(callers) = 1 => call[t].mine = detections_
      /\ call[t].mine # detections_ =>
           /\ Cardinality(callers) > 1
           /\ call[t].mine < detections_

\* C11 witness: two calls interleave, and one of them is in its loop over
\* the detections, past its first detection, on the array the other call's
\* detection step produced
C11_Witness ==
  /\ callers = {1, 2}
  /\ \E t \in Threads :
       /\ call[t].pc = "correlate"
       /\ call[t].i >= 1
       /\ call[t].mine # detections_
       /\ \E u \in Threads \ {t} : InFlight(u) /\ call[u].mine = detections_

----------------------------------------------------------------------------
\* Properties of the object points (checked under Spec)

\* the corners of a square tag of half-size s about the origin,
\* counterclockwise from the bottom left
FourCorners(s) == << <<-s, -s, 0>>, <<s, -s, 0>>, <<s, s, 0>>, <<-s, s, 0>> >>

\* bundles that have id as a member and keep their points under name
Contributors(name, id) ==
  {j \in 1..Len(Bundles) : Bundles[j].name = name /\ id \in MemberIds(Bundles[j])}

\* the step of the loop over the detections that handles detection d
HandlesDetection ==
  /\ call[1].pc = "correlate"
  /\ call[1].i < Len(zdata)
  /\ call'[1].i = call[1].i + 1

\* C12: with the identity offset, addObjectPoints appends the four points
\* (-s,-s,0), (s,-s,0), (s,s,0), (-s,s,0) in this order and leaves the
\* points before them as they were; detectTags calls it with s = size/2,
\* for a standalone tag on an empty sequence and for a bundle member on the
\* bundle's sequence.
C12_FourCornersAppendedInOrder ==
  [][HandlesDetection =>
       LET d == zdata[call[1].i + 1]
       IN /\ d.id \in DOMAIN standalone_tag_descriptions_ =>
               /\ Len(call'[1].detections) = Len(call[1].detections) + 1
               /\ call'[1].detections[Len(call'[1].detections)].pose.objectPoints =
                    FourCorners(standalone_tag_descriptions_[d.id].size \div 2)
          /\ \A j \in 1..Len(Bundles) :
               (/\ Contributors(Bundles[j].name, d.id) = {j}
                /\ memberT_oi(Bundles[j], d.id) = Eye) =>
                 MapGet(call'[1].bundleObjectPoints, Bundles[j].name) =
                   MapGet(call[1].bundleObjectPoints, Bundles[j].name)
                     \o FourCorners(memberSize(Bundles[j], d.id) \div 2)]_vars

\* C12 witness: the loop over the detections is over, a standalone entry
\* has the four corners of its tag, and a bundle's sequence holds the four
\* corners of a member with the identity offset after four earlier points
C12_Witness ==
  /\ call[1].pc = "bundles"
  /\ \E e \in 1..Len(Result) :
       /\ Len(Result[e].id) = 1
       /\ Result[e].pose.objectPoints = FourCorners(Result[e].size[1] \div 2)
  /\ \E j \in 1..Len(Bundles) :
       LET name == Bundles[j].name
           points == MapGet(call[1].bundleObjectPoints, name)
       IN /\ Len(points) = 8
          /\ \E id \in MemberIds(Bundles[j]) :
               /\ memberT_oi(Bundles[j], id) = Eye
               /\ SubSeq(points, 5, 8) = FourCorners(memberSize(Bundles[j], id) \div 2)
               /\ SubSeq(points, 1, 4) # SubSeq(points, 5, 8)

----------------------------------------------------------------------------
\* Specification of one detectTags call that keeps running: the calling
\* thread executes the function statement after statement, so a step of
\* the call that can be taken is taken

Running(t) == Sort(t) \/ Scan(t) \/ Correlate(t) \/ Estimate(t) \/ Publish(t)

\* every registry of FrameParams, in a build with assertions and with the
\* transform broadcast switched off
FairParams ==
  [standalone_tags : [present : {TRUE}, value : FrameStandaloneLists],
   tag_bundles : [present : {TRUE}, value : FrameBundleLists],
   publish_tf : {FALSE}]

FairInit ==
  /\ \E p \in FairParams : ConstructedWith(p, TRUE)
  /\ callers = {1}
  /\ callsLeft = 1

SpecFair == FairInit /\ [][Next]_vars /\ \A t \in Threads : WF_vars(Running(t))

\* the stages of a call, each followed by the next
StageOrder ==
  {<<"idle", "sort">>, <<"sort", "scan">>, <<"scan", "correlate">>,
   <<"correlate", "bundles">>, <<"bundles", "publish">>, <<"publish", "done">>,
   <<"done", "idle">>}

\* C13: a call that has run its detection step goes through duplicate
\* removal, correlation and estimation in this order and reaches its
\* return statement with a result array, whatever ids the frame holds; in
\* particular the scan loop of removeDuplicates comes to an end.
C13_EveryCallReturns ==
  /\ [][call'[1].pc # call[1].pc => <<call[1].pc, call'[1].pc>> \in StageOrder]_vars
  /\ (call[1].pc = "sort") ~> (call[1].pc = "correlate")
  /\ (call[1].pc = "sort") ~> (call[1].pc = "done" /\ Len(Result) <= Len(zdata) + Len(Bundles))

\* C13 witness: the call is at its return statement after a frame in which
\* an id was pruned as a duplicate and another had no description
C13_Witness ==
  /\ Returning
  /\ call[1].pruned # <<>>
  /\ call[1].warnRequests # <<>>

----------------------------------------------------------------------------
\* Properties of ids shared between bundles (checked under Spec)

\* bundles that have id as a member
Containing(id) == {j \in 1..Len(Bundles) : id \in MemberIds(Bundles[j])}

\* the corners of member id of bundle j in the bundle's frame: half the
\* member's size, moved by the member's offset
MemberCorners(j, id) ==
  LET member == CHOOSE tag \in Range(Bundles[j].tags) : tag.id = id
      s == member.size \div 2
  IN [k \in 1..4 |-> MulMinor(member.T_oi, FourCorners(s)[k] \o <<1>>)]

\* the corners detection d adds under name, bundle after bundle from j on
RECURSIVE CornersAdded(_, _, _)
CornersAdded(name, d, j) ==
  IF j > Len(Bundles)
  THEN <<>>
  ELSE (IF j \in Contributors(name, d.id) THEN MemberCorners(j, d.id) ELSE <<>>)
         \o CornersAdded(name, d, j + 1)

\* the image points of detection d
ImageCorners(d) == [k \in 1..4 |-> <<d.uid, tag_x[k], tag_y[k]>>]

\* C14: a detection whose id is a member of more than one bundle appends,
\* for every bundle containing it, four object points made from that
\* bundle's member size and offset and its four image points to the
\* bundle's correspondence set, and every such bundle has a result entry
\* when the call returns.
C14_SharedIdFeedsEveryContainingBundle ==
  /\ [][HandlesDetection =>
          LET d == zdata[call[1].i + 1]
          IN Cardinality(Containing(d.id)) >= 2 =>
               \A j \in Containing(d.id) :
                 LET name == Bundles[j].name
                     before == MapGet(call[1].bundleObjectPoints, name)
                     after == MapGet(call'[1].bundleObjectPoints, name)
                     imBefore == MapGet(call[1].bundleImagePoints, name)
                     imAfter == MapGet(call'[1].bundleImagePoints, name)
                 IN /\ after = before \o CornersAdded(name, d, 1)
                    /\ \E a \in 0..(Len(CornersAdded(name, d, 1)) - 4) :
                         SubSeq(CornersAdded(name, d, 1), a + 1, a + 4) = MemberCorners(j, d.id)
                    /\ Len(imAfter) = Len(imBefore) + 4 * Cardinality(Contributors(name, d.id))
                    /\ SubSeq(imAfter, 1, Len(imBefore)) = imBefore
                    /\ \A a \in 0..(Cardinality(Contributors(name, d.id)) - 1) :
                         SubSeq(imAfter, Len(imBefore) + 4 * a + 1, Len(imBefore) + 4 * a + 4)
                           = ImageCorners(d)]_vars
  /\ [](Returning =>
          \A k \in 1..Len(Survivors) :
            Cardinality(Containing(Survivors[k].id)) >= 2 =>
              \A j \in Containing(Survivors[k].id) : BundleEntriesOf(j) # {})

\* C14 witness: one detection of an id that two bundles of different names
\* hold with different sizes; each bundle's entry was solved from the four
\* corners of its own member and the detection's four image points
C14_Witness ==
  /\ Returning
  /\ \E k \in 1..Len(Survivors), j1, j2 \in 1..Len(Bundles) :
       LET d == Survivors[k]
       IN /\ j1 # j2
          /\ Bundles[j1].name # Bundles[j2].name
          /\ {j1, j2} \subseteq Containing(d.id)
          /\ Occurrences(Survivors, d.id) = 1
          /\ MemberCorners(j1, d.id) # MemberCorners(j2, d.id)
          /\ \E e1, e2 \in 1..Len(Result) :
               /\ e1 \in BundleEntriesOf(j1)
               /\ e2 \in BundleEntriesOf(j2)
               /\ Result[e1].pose.objectPoints = MemberCorners(j1, d.id)
               /\ Result[e2].pose.objectPoints = MemberCorners(j2, d.id)
               /\ Result[e1].pose.imagePoints = ImageCorners(d)
               /\ Result[e2].pose.imagePoints = ImageCorners(d)

----------------------------------------------------------------------------
\* Properties of the order of the two loops (checked under Spec)

\* the step of the loop over the bundles that handles bundle j
HandlesBundle ==
  /\ call[1].pc = "bundles"
  /\ call[1].j < Len(Bundles)
  /\ call'[1].j = call[1].j + 1

\* how many bundles up to j have an entry
Rank(j) == Cardinality({x \in NameObservedBundles : x <= j})

\* C15: the loop over the bundles starts when every detection of the
\* buffer has been through the loop over the detections; it visits each
\* bundle once, solves it from the whole set kept under its name and puts
\* its entry at the back of the result, and the sets no longer change. So
\* the returned sequence is the standalone entries followed by the bundle
\* entries in configuration order.
C15_BundlesSolvedAfterAllDetections ==
  /\ [](call[1].pc = "bundles" => call[1].i = Len(zdata))
  /\ [][call[1].pc = "bundles" /\ call'[1].pc \in {"bundles", "publish"} =>
          /\ call'[1].bundleObjectPoints = call[1].bundleObjectPoints
          /\ call'[1].bundleImagePoints = call[1].bundleImagePoints]_vars
  /\ [][HandlesBundle =>
          LET j == call[1].j + 1
              name == Bundles[j].name
          IN IF name \in DOMAIN call[1].bundleObjectPoints
             THEN /\ Len(call'[1].detections) = Len(Result) + 1
                  /\ SubSeq(call'[1].detections, 1, Len(Result)) = Result
                  /\ call'[1].detections[Len(Result) + 1].id = bundleIds(Bundles[j])
                  /\ call'[1].detections[Len(Result) + 1].pose.objectPoints =
                       call[1].bundleObjectPoints[name]
                  /\ call'[1].detections[Len(Result) + 1].pose.imagePoints =
                       MapGet(call[1].bundleImagePoints, name)
             ELSE call'[1].detections = Result]_vars
  /\ [](Returning =>
          LET nStandalone == Cardinality(StandaloneSurvivors)
          IN /\ Len(Result) = nStandalone + Cardinality(NameObservedBundles)
             /\ \A e \in 1..nStandalone :
                  \E k \in StandaloneSurvivors : e \in StandaloneEntriesOf(k)
             /\ \A j \in NameObservedBundles : ListsAllMembers(nStandalone + Rank(j), j))

\* C15 witness: the call returns a standalone entry followed by the
\* entries of two bundles, the second solved from more points than one
\* detection adds
C15_Witness ==
  /\ Returning
  /\ Cardinality(StandaloneSurvivors) = 1
  /\ NameObservedBundles = {1, 2}
  /\ Len(Result) = 3
  /\ ListsAllMembers(2, 1)
  /\ ListsAllMembers(3, 2)
  /\ Bundles[1].name # Bundles[2].name
  /\ Len(Result[3].pose.objectPoints) = 8

----------------------------------------------------------------------------
\* Properties of the names and the broadcasts (checked under Spec)

\* entry e is a standalone tag's, under its frame_name, or a bundle's,
\* under the bundle's name
NamedAfterItsTagOrBundle(e) ==
  \/ \E k \in StandaloneSurvivors : e \in StandaloneEntriesOf(k)
  \/ \E j \in 1..Len(Bundles) : ListsAllMembers(e, j)

\* C16: when the call returns there are as many names as result entries
\* and entry i has name i, its tag's frame_name or its bundle's name; with
\* publish_tf_ set one transform per entry was broadcast, in order, with
\* the entry's pose and under the entry's name, and without it none.
C16_OneNameAndOneBroadcastPerEntry ==
  Returning =>
    /\ Len(ResultNames) = Len(Result)
    /\ \A e \in 1..Len(Result) : NamedAfterItsTagOrBundle(e)
    /\ publish_tf_ =>
         /\ Len(call[1].sent) = Len(Result)
         /\ \A e \in 1..Len(Result) :
              /\ call[1].sent[e].pose = Result[e].pose
              /\ call[1].sent[e].child = ResultNames[e]
              /\ call[1].sent[e].child # OutOfRange
    /\ ~publish_tf_ => call[1].sent = <<>>

\* C16 witness: with publish_tf_ set the call returns a standalone entry
\* and a bundle entry and has broadcast both
C16_Witness ==
  /\ Returning
  /\ publish_tf_
  /\ Len(call[1].sent) = 2
  /\ \E k \in StandaloneSurvivors :
       /\ 1 \in StandaloneEntriesOf(k)
       /\ call[1].sent[1].child = standalone_tag_descriptions_[Survivors[k].id].frame_name
  /\ \E j \in 1..Len(Bundles) :
       /\ ListsAllMembers(2, j)
       /\ call[1].sent[2].child = Bundles[j].name

----------------------------------------------------------------------------
\* Properties of the keys of the correspondence sets (checked under Spec)

DistinctBundleNames ==
  \A j1, j2 \in 1..Len(Bundles) : j1 # j2 => Bundles[j1].name # Bundles[j2].name

\* where the entry of bundle j is in the result
EntryOf(j) == Cardinality(StandaloneSurvivors) + Rank(j)

\* detections of the buffer whose id is a member of bundle j
OwnDetections(j) == {k \in 1..Len(Survivors) : Survivors[k].id \in MemberIds(Bundles[j])}

\* the uids of the detections the image points of entry e come from
UidsOf(e) == {Result[e].pose.imagePoints[q][1] : q \in 1..Len(Result[e].pose.imagePoints)}

====
